---- MODULE Spec2Model ----
(***************************************************************************)
(* Model of src/src/data/stalls.ts: the stall identifier allocator         *)
(* getNextStallNumbers(stalls, type?), of the callers that register stalls *)
(* with its numbers, and of the RegistrationForm component of              *)
(* src/src/lib/supabase.ts (lines 37 to 286).                              *)
(*                                                                         *)
(* A string is a sequence of one-character strings, so that the regular    *)
(* expressions, trim() and toLowerCase() are computed character by         *)
(* character.  An optional value (type?: string, the null of               *)
(* normalizedType, the null of RegExp.exec) is a sequence of length 0      *)
(* (absent) or 1 (present).  Number() is the decimal value; every digit    *)
(* run of the model is short, far below 2^53, where Number() is exact.     *)
(*                                                                         *)
(* A definition described as the code with a fault (a flag added, a call   *)
(* left out, another seed) is a mutation of the definition that follows    *)
(* it, kept for the mutation analysis of the properties.                   *)
(***************************************************************************)
EXTENDS Integers, Sequences, FiniteSets

VARIABLES
  \* a caller of getNextStallNumbers: its arguments, the value returned by the
  \* latest call and by the one before, the number of calls made
  stalls, type, result, earlier, calls,
  \* the registrations that take their numbers from the function, and the
  \* latest change made to the collection
  regs, lastOp,
  \* RegistrationForm: the component's state (formData, submittedData,
  \* qrCodeDataUrl, loading), the insert awaited by handleSubmit, the pending
  \* QRCode.toDataURL promises, the rows of the vendors table, the toasts shown,
  \* the documents saved and the number of submissions
  form, request, qrJobs, vendors, toasts, pdfs, submits

allocVars == <<stalls, type, result, earlier, calls>>

regVars == <<regs, lastOp>>

formVars == <<form, request, qrJobs, vendors, toasts, pdfs, submits>>

vars == <<allocVars, regVars, formVars>>

----------------------------------------------------------------------------
(* Bounds *)

MaxStalls == 3

MaxCalls == 2

----------------------------------------------------------------------------
(* Characters *)

DigitChars == <<"0", "1", "2", "3", "4", "5", "6", "7", "8", "9">>

UpperChars == <<"A", "B", "C", "D", "E", "F", "G", "H", "I", "J", "K", "L", "M",
                "N", "O", "P", "Q", "R", "S", "T", "U", "V", "W", "X", "Y", "Z">>

LowerChars == <<"a", "b", "c", "d", "e", "f", "g", "h", "i", "j", "k", "l", "m",
                "n", "o", "p", "q", "r", "s", "t", "u", "v", "w", "x", "y", "z">>

\* \d of a regular expression without the u flag: the ten ASCII digits.
IsDigit(c) == c \in {"0", "1", "2", "3", "4", "5", "6", "7", "8", "9"}

\* \s of a regular expression, and the characters trim() removes.
IsWhiteSpace(c) == c \in {" ", "\t", "\n"}

DigitValues == [c \in {DigitChars[i] : i \in 1..10} |->
                  (CHOOSE i \in 1..10 : DigitChars[i] = c) - 1]

DigitValue(c) == DigitValues[c]

LowerCaseOf == [c \in {UpperChars[i] : i \in 1..26} |->
                  LowerChars[CHOOSE i \in 1..26 : UpperChars[i] = c]]

UpperCaseOf == [c \in {LowerChars[i] : i \in 1..26} |->
                  UpperChars[CHOOSE i \in 1..26 : LowerChars[i] = c]]

\* One character of String.prototype.toLowerCase.
LowerOf(c) == IF c \in DOMAIN LowerCaseOf THEN LowerCaseOf[c] ELSE c

\* Canonicalize of an /i regular expression: the character's upper case.
Canonicalize(c) == IF c \in DOMAIN UpperCaseOf THEN UpperCaseOf[c] ELSE c

----------------------------------------------------------------------------
(* Strings *)

toLowerCase(str) == [i \in 1..Len(str) |-> LowerOf(str[i])]

\* String.prototype.trim: drops the leading and the trailing white space.
trim(str) ==
  IF \A i \in 1..Len(str) : IsWhiteSpace(str[i])
    THEN <<>>
    ELSE LET first == CHOOSE i \in 1..Len(str) :
                        /\ ~IsWhiteSpace(str[i])
                        /\ \A k \in 1..(i - 1) : IsWhiteSpace(str[k])
             last  == CHOOSE j \in 1..Len(str) :
                        /\ ~IsWhiteSpace(str[j])
                        /\ \A k \in (j + 1)..Len(str) : IsWhiteSpace(str[k])
         IN  SubSeq(str, first, last)

\* Number(match[1]) for a capture of \d+: the decimal value of the digits.
RECURSIVE Number(_)
Number(digits) ==
  IF digits = <<>>
    THEN 0
    ELSE Number(SubSeq(digits, 1, Len(digits) - 1)) * 10
           + DigitValue(digits[Len(digits)])

\* Math.max of two numbers.
MathMax(a, b) == IF a >= b THEN a ELSE b

----------------------------------------------------------------------------
(* Regular expressions *)

\* The literal characters lit match str at position i; ignoreCase is the i flag.
LiteralAt(str, i, lit, ignoreCase) ==
  /\ i + Len(lit) - 1 <= Len(str)
  /\ \A k \in 1..Len(lit) :
       IF ignoreCase
         THEN Canonicalize(str[i + k - 1]) = Canonicalize(lit[k])
         ELSE str[i + k - 1] = lit[k]

\* The last position of the greedy run of digits that starts at i (i - 1: no run).
DigitRunEnd(str, i) ==
  CHOOSE j \in (i - 1)..Len(str) :
    /\ \A k \in i..j : IsDigit(str[k])
    /\ j = Len(str) \/ ~IsDigit(str[j + 1])

\* The last position of the greedy run of white space that starts at i.
SpaceRunEnd(str, i) ==
  CHOOSE j \in (i - 1)..Len(str) :
    /\ \A k \in i..j : IsWhiteSpace(str[k])
    /\ j = Len(str) \/ ~IsWhiteSpace(str[j + 1])

StallDash == <<"s", "t", "a", "l", "l", "-">>

StallWord == <<"S", "t", "a", "l", "l">>

\* /stall-(\d+)/ matches str starting at position i.
IdPatternAt(str, i) ==
  /\ LiteralAt(str, i, StallDash, FALSE)
  /\ DigitRunEnd(str, i + Len(StallDash)) >= i + Len(StallDash)

\* The capture group (\d+) of a match of /stall-(\d+)/ at position i.
IdCaptureAt(str, i) ==
  SubSeq(str, i + Len(StallDash), DigitRunEnd(str, i + Len(StallDash)))

\* /stall-(\d+)/i, the pattern of the ids with the i flag added.
RECURSIVE IdRegExpExecIgnoreCaseFrom(_, _)
IdRegExpExecIgnoreCaseFrom(str, i) ==
  IF i > Len(str)
    THEN <<>>
    ELSE IF /\ LiteralAt(str, i, StallDash, TRUE)
            /\ DigitRunEnd(str, i + Len(StallDash)) >= i + Len(StallDash)
           THEN <<IdCaptureAt(str, i)>>
           ELSE IdRegExpExecIgnoreCaseFrom(str, i + 1)

IdRegExpExecIgnoreCase(str) == IdRegExpExecIgnoreCaseFrom(str, 1)

\* The scan of exec: the match at the first position from i on that has one.
RECURSIVE IdRegExpExecFrom(_, _)
IdRegExpExecFrom(str, i) ==
  IF i > Len(str)
    THEN <<>>
    ELSE IF IdPatternAt(str, i)
           THEN <<IdCaptureAt(str, i)>>
           ELSE IdRegExpExecFrom(str, i + 1)

\* /stall-(\d)/, the pattern of the ids with the + dropped: one digit captured.
IdRegExpExecOneDigit(str) ==
  LET match == IdRegExpExecFrom(str, 1)
  IN  IF match = <<>> THEN <<>> ELSE <<SubSeq(match[1], 1, 1)>>

\* /stall-(\d+)/.exec(str): null (<<>>) or <<match[1]>>, the digits of the
\* leftmost match (the regular expression has no g flag: the scan starts at 0).
IdRegExpExec(str) == IdRegExpExecFrom(str, 1)

\* /Stall\s+(\d+)/i matches str starting at position i: the word in any case,
\* the greedy run of white space (one or more), then a digit.
NamePatternAt(str, i) ==
  /\ LiteralAt(str, i, StallWord, TRUE)
  /\ SpaceRunEnd(str, i + Len(StallWord)) >= i + Len(StallWord)
  /\ DigitRunEnd(str, SpaceRunEnd(str, i + Len(StallWord)) + 1)
       >= SpaceRunEnd(str, i + Len(StallWord)) + 1

\* The capture group (\d+) of a match of /Stall\s+(\d+)/i at position i.
NameCaptureAt(str, i) ==
  LET d == SpaceRunEnd(str, i + Len(StallWord)) + 1
  IN  SubSeq(str, d, DigitRunEnd(str, d))

\* /^Stall\s+(\d+)/i, the pattern of the names anchored at the start.
NameRegExpExecAnchored(str) ==
  IF Len(str) >= 1 /\ NamePatternAt(str, 1)
    THEN <<NameCaptureAt(str, 1)>>
    ELSE <<>>

\* The scan of exec: the match at the first position from i on that has one.
RECURSIVE NameRegExpExecFrom(_, _)
NameRegExpExecFrom(str, i) ==
  IF i > Len(str)
    THEN <<>>
    ELSE IF NamePatternAt(str, i)
           THEN <<NameCaptureAt(str, i)>>
           ELSE NameRegExpExecFrom(str, i + 1)

\* /Stall\s+(\d+)/i.exec(str): null (<<>>) or <<match[1]>>.
NameRegExpExec(str) == NameRegExpExecFrom(str, 1)

----------------------------------------------------------------------------
(* getNextStallNumbers *)

\* The first callback returning Number(match[1]) without Math.max.
IdCallbackLatest(highest, stall) ==
  LET match == IdRegExpExec(stall.id)
  IN  IF match = <<>>
        THEN highest
        ELSE Number(match[1])

\* The callback of the first reduce.
IdCallback(highest, stall) ==
  LET match == IdRegExpExec(stall.id)
  IN  IF match = <<>>
        THEN highest
        ELSE MathMax(highest, Number(match[1]))

\* type?.toLowerCase() ?? null, the trim() left out.
NormalizedTypeUntrimmed(t) ==
  IF t = <<>> THEN <<>> ELSE <<toLowerCase(t[1])>>

\* type?.trim().toLowerCase() || null: the empty string taken for no filter.
NormalizedTypeBlankAsAbsent(t) ==
  IF t = <<>> \/ toLowerCase(trim(t[1])) = <<>>
    THEN <<>>
    ELSE <<toLowerCase(trim(t[1]))>>

\* type?.trim().toLowerCase() ?? null
NormalizedType(t) ==
  IF t = <<>> THEN <<>> ELSE <<toLowerCase(trim(t[1]))>>

\* stall.type.trim().toLowerCase()
StallTypeNormalized(stall) == toLowerCase(trim(stall.type))

\* The second callback without the type test.
NameCallbackUnfiltered(highest, stall, normalizedType) ==
  LET match == NameRegExpExec(stall.name)
  IN  IF match = <<>>
        THEN highest
        ELSE MathMax(highest, Number(match[1]))

\* The second callback returning 0 instead of highest when the name has no match.
NameCallbackResetOnMiss(highest, stall, normalizedType) ==
  IF normalizedType # <<>> /\ StallTypeNormalized(stall) # normalizedType[1]
    THEN highest
    ELSE LET match == NameRegExpExec(stall.name)
         IN  IF match = <<>>
               THEN 0
               ELSE MathMax(highest, Number(match[1]))

\* The callback of the second reduce; normalizedType is the closure's variable.
NameCallback(highest, stall, normalizedType) ==
  IF normalizedType # <<>> /\ StallTypeNormalized(stall) # normalizedType[1]
    THEN highest
    ELSE LET match == NameRegExpExec(stall.name)
         IN  IF match = <<>>
               THEN highest
               ELSE MathMax(highest, Number(match[1]))

\* stalls.reduce(callback, initialValue) with the first callback: a left fold.
RECURSIVE ReduceIds(_, _)
ReduceIds(array, initialValue) ==
  IF array = <<>>
    THEN initialValue
    ELSE IdCallback(ReduceIds(SubSeq(array, 1, Len(array) - 1), initialValue),
                    array[Len(array)])

\* stalls.reduce(callback, initialValue) with the second callback.
RECURSIVE ReduceNames(_, _, _)
ReduceNames(array, initialValue, normalizedType) ==
  IF array = <<>>
    THEN initialValue
    ELSE NameCallback(
           ReduceNames(SubSeq(array, 1, Len(array) - 1), initialValue, normalizedType),
           array[Len(array)], normalizedType)

\* Both reductions seeded with 1 instead of 0.
getNextStallNumbersSeededOne(array, t) ==
  [nextIdNumber   |-> ReduceIds(array, 1) + 1,
   nextNameNumber |-> ReduceNames(array, 1, NormalizedType(t)) + 1]

\* Both maxima taken in one loop, the type test ahead of the id's extraction.
RECURSIVE ReduceIdsOfType(_, _, _)
ReduceIdsOfType(array, initialValue, normalizedType) ==
  IF array = <<>>
    THEN initialValue
    ELSE LET highest == ReduceIdsOfType(SubSeq(array, 1, Len(array) - 1),
                                        initialValue, normalizedType)
             stall == array[Len(array)]
         IN  IF normalizedType # <<>> /\ StallTypeNormalized(stall) # normalizedType[1]
               THEN highest
               ELSE IdCallback(highest, stall)

getNextStallNumbersOneLoop(array, t) ==
  [nextIdNumber   |-> ReduceIdsOfType(array, 0, NormalizedType(t)) + 1,
   nextNameNumber |-> ReduceNames(array, 0, NormalizedType(t)) + 1]

\* getNextStallNumbers(stalls, type): the object { nextIdNumber, nextNameNumber }.
getNextStallNumbers(array, t) ==
  [nextIdNumber   |-> ReduceIds(array, 0) + 1,
   nextNameNumber |-> ReduceNames(array, 0, NormalizedType(t)) + 1]

\* The array after a loop that consumes it with shift().
StallsAfterShift(array) == IF array = <<>> THEN array ELSE Tail(array)

\* The array the caller holds after a call: reduce and the callbacks only read it.
StallsAfterCall(array) == array

----------------------------------------------------------------------------
(* Inputs *)

Str_stall2 == <<"s", "t", "a", "l", "l", "-", "2">>
Str_stall5 == <<"s", "t", "a", "l", "l", "-", "5">>
Str_stall7 == <<"s", "t", "a", "l", "l", "-", "7">>
Str_Stall5 == <<"S", "t", "a", "l", "l", "-", "5">>
Str_stall07 == <<"s", "t", "a", "l", "l", "-", "0", "7">>
Str_mystall10x == <<"m", "y", "-", "s", "t", "a", "l", "l", "-", "1", "0", "x">>
Str_stallNoDigits == <<"s", "t", "a", "l", "l", "-">>

Str_Stall_3 == <<"S", "t", "a", "l", "l", " ", "3">>
Str_Stall_1 == <<"S", "t", "a", "l", "l", " ", "1">>
Str_STALL_12 == <<"S", "T", "A", "L", "L", " ", "1", "2">>
Str_Corner == <<"C", "o", "r", "n", "e", "r", " ", "S", "t", "a", "l", "l", " ",
                "1", "2", " ", "-", " ", "N", "o", "r", "t", "h">>
Str_Stall_2_stall_9 == <<"S", "t", "a", "l", "l", " ", "2", " ",
                         "s", "t", "a", "l", "l", " ", "9">>
Str_stall_tab_10 == <<"s", "t", "a", "l", "l", " ", "\t", " ", "1", "0">>
Str_Stall4 == <<"S", "t", "a", "l", "l", "4">>
Str_Kiosk == <<"K", "i", "o", "s", "k">>

Str_Fish == <<"F", "i", "s", "h">>
Str_FISH == <<"F", "I", "S", "H">>
Str_fish == <<"f", "i", "s", "h">>
Str_Fish_padded == <<" ", "F", "i", "s", "h", " ">>
Str_FISH_padded == <<" ", "F", "I", "S", "H", " ">>
Str_Meat == <<"M", "e", "a", "t">>
Str_meat == <<"m", "e", "a", "t">>
Str_Rice == <<"R", "i", "c", "e">>

\* A StallRecord; the attributes the function never reads are left out.
StallRecord(id, name, t) == [id |-> id, name |-> name, type |-> t]

RecordPool ==
  { StallRecord(Str_stall2, Str_Stall_3, Str_Fish),
    StallRecord(Str_stall7, Str_Stall_1, Str_Meat),
    StallRecord(Str_stall5, Str_Kiosk, Str_Rice),
    StallRecord(Str_stall5, Str_STALL_12, Str_Fish_padded),
    StallRecord(Str_Stall5, Str_Corner, Str_Meat),
    StallRecord(Str_Stall5, Str_Kiosk, Str_Fish),
    StallRecord(Str_mystall10x, Str_Stall_2_stall_9, Str_FISH),
    StallRecord(Str_stallNoDigits, Str_Stall4, Str_Meat),
    StallRecord(Str_stall07, Str_stall_tab_10, Str_fish) }

\* The type argument: omitted (<<>>) or a string.
TypePool ==
  { <<>>, <<Str_fish>>, <<Str_FISH_padded>>, <<Str_Fish>>, <<Str_meat>> }

Collections == UNION { [1..n -> RecordPool] : n \in 0..MaxStalls }

\* Types and filters that are empty or white space only.
Str_empty == <<>>
Str_space == <<" ">>

BlankRecordPool ==
  { StallRecord(Str_stall2, Str_Stall_3, Str_Fish),
    StallRecord(Str_stall7, Str_Stall_1, Str_empty),
    StallRecord(Str_stall5, Str_STALL_12, Str_space),
    StallRecord(Str_stall5, Str_Kiosk, Str_empty),
    StallRecord(Str_Stall5, Str_Corner, Str_Meat) }

BlankTypePool == { <<>>, <<Str_empty>>, <<Str_space>>, <<Str_fish>> }

BlankCollections == UNION { [1..n -> BlankRecordPool] : n \in 0..MaxStalls }

----------------------------------------------------------------------------
(* The state machine: a caller holding a collection calls the function. *)

\* No registration under way and no change made to the collection.
RegIdle ==
  /\ regs = <<>>
  /\ lastOp = [op |-> "none"]

\* useState's initial values (the form as mounted), nothing sent or shown.
\* The form's fields before any input and after handleReset.
EmptyFormData ==
  [vendor |-> <<>>, contact |-> <<>>, type |-> <<>>, monthlyRent |-> <<>>]

FormIdle ==
  /\ form = [formData |-> EmptyFormData,
             submittedData |-> <<>>,
             qrCodeDataUrl |-> <<>>,
             loading |-> FALSE]
  /\ request = <<>>
  /\ qrJobs = {}
  /\ vendors = <<>>
  /\ toasts = <<>>
  /\ pdfs = {}
  /\ submits = 0

Init ==
  /\ stalls \in Collections
  /\ type \in TypePool
  /\ result = <<>>
  /\ earlier = <<>>
  /\ calls = 0
  /\ RegIdle
  /\ FormIdle

\* The inputs with blank types and blank filters among them.
InitBlank ==
  /\ stalls \in BlankCollections
  /\ type \in BlankTypePool
  /\ result = <<>>
  /\ earlier = <<>>
  /\ calls = 0
  /\ RegIdle
  /\ FormIdle

\* One call getNextStallNumbers(stalls, type).
Call ==
  /\ calls < MaxCalls
  /\ result' = <<getNextStallNumbers(stalls, type)>>
  /\ earlier' = result
  /\ calls' = calls + 1
  /\ stalls' = StallsAfterCall(stalls)
  /\ UNCHANGED <<type, regVars, formVars>>

Next == Call

Spec == Init /\ [][Next]_vars

SpecBlank == InitBlank /\ [][Next]_vars

----------------------------------------------------------------------------
(* Registrations: callers that take the numbers of a new stall from            *)
(* getNextStallNumbers and insert the record into the collection.  The         *)
(* function has no caller in the sources; these are the callers the            *)
(* specification describes (sections 5 and 6).                                 *)

NumRegistrations == 2

\* The decimal numeral of n, as `${n}` writes it.
RECURSIVE DecimalString(_)
DecimalString(n) ==
  IF n < 10
    THEN <<DigitChars[n + 1]>>
    ELSE DecimalString(n \div 10) \o <<DigitChars[(n % 10) + 1]>>

\* The record of a registration of type t: `stall-${nextIdNumber}`, named
\* `Stall ${nextNameNumber}`.
NewStall(numbers, t) ==
  StallRecord(StallDash \o DecimalString(numbers.nextIdNumber),
              StallWord \o <<" ">> \o DecimalString(numbers.nextNameNumber),
              t)

\* The types a registration selects.
RegistrationTypes == {Str_Fish, Str_Meat}

\* The ids of a collection are pairwise distinct.
DistinctIds(array) ==
  \A i, j \in DOMAIN array : array[i].id = array[j].id => i = j

\* The collections the registrations start from, each with distinct ids.
SeedCollections ==
  { <<>>,
    <<StallRecord(Str_stall2, Str_Stall_3, Str_Fish),
      StallRecord(Str_stall7, Str_Stall_1, Str_Meat)>>,
    <<StallRecord(Str_stall7, Str_Stall_1, Str_Meat),
      StallRecord(Str_stall5, Str_STALL_12, Str_Fish_padded)>>,
    <<StallRecord(Str_Stall5, Str_Corner, Str_Meat),
      StallRecord(Str_mystall10x, Str_Stall_2_stall_9, Str_FISH),
      StallRecord(Str_stall07, Str_stall_tab_10, Str_fish)>>,
    <<StallRecord(Str_stallNoDigits, Str_Stall4, Str_Meat)>> }

IdleRegistration ==
  [pc |-> "idle", type |-> <<>>, filter |-> <<>>, numbers |-> <<>>, snapshot |-> <<>>]

InitRegistrations ==
  /\ stalls \in SeedCollections
  /\ type = <<>>
  /\ result = <<>>
  /\ earlier = <<>>
  /\ calls = 0
  /\ regs = [i \in 1..NumRegistrations |-> IdleRegistration]
  /\ lastOp = [op |-> "none"]
  /\ FormIdle

\* Registration i of type t computes its numbers on the collection as it is,
\* with the filter f (the selected type, or none).
Compute(i, t, f) ==
  /\ regs[i].pc = "idle"
  /\ regs' = [regs EXCEPT ![i] =
                [pc |-> "computed", type |-> t, filter |-> f,
                 numbers |-> <<getNextStallNumbers(stalls, f)>>,
                 snapshot |-> <<stalls>>]]
  /\ UNCHANGED <<allocVars, lastOp, formVars>>

\* Registration i inserts the record made of the numbers it computed.
Insert(i) ==
  /\ regs[i].pc = "computed"
  /\ stalls' = Append(stalls, NewStall(regs[i].numbers[1], regs[i].type))
  /\ regs' = [regs EXCEPT ![i].pc = "inserted"]
  /\ UNCHANGED <<type, result, earlier, calls, lastOp, formVars>>

\* Serialized: registration i computes on the latest collection and inserts
\* before any other registration computes.
Register(i, t, f) ==
  /\ regs[i].pc = "idle"
  /\ LET numbers == getNextStallNumbers(stalls, f)
     IN  /\ stalls' = Append(stalls, NewStall(numbers, t))
         /\ regs' = [regs EXCEPT ![i] =
                       [pc |-> "inserted", type |-> t, filter |-> f,
                        numbers |-> <<numbers>>, snapshot |-> <<stalls>>]]
  /\ UNCHANGED <<type, result, earlier, calls, lastOp, formVars>>

NextSerial ==
  \E i \in 1..NumRegistrations, t \in RegistrationTypes :
    \E f \in {<<>>, <<t>>} : Register(i, t, f)

SpecSerial == InitRegistrations /\ [][NextSerial]_vars

NextRace ==
  \E i \in 1..NumRegistrations :
    \/ \E t \in RegistrationTypes : \E f \in {<<>>, <<t>>} : Compute(i, t, f)
    \/ Insert(i)

SpecRace == InitRegistrations /\ [][NextRace]_vars

----------------------------------------------------------------------------
(* RegistrationForm: the fields of the form, the insert into "vendors" in      *)
(* flight, the QR code jobs started by the effect, the notifications shown and *)
(* the receipts saved.  The dates of the row are left out of the model.        *)

MaxSubmits == 2

\* What the user types or pastes into the contact field.
Str_contactValid == <<"0", "9", "1", "7", "1", "2", "3", "4", "5", "6", "7">>
Str_contactDashed == <<"0", "9", "1", "7", "-", "1", "2", "3", "-", "4", "5", "6", "7">>
Str_contactLong == <<"0", "9", "1", "7", "1", "2", "3", "4", "5", "6", "7", "8", "9">>
Str_contactPrefix == <<"0", "8", "1", "7", "1", "2", "3", "4", "5", "6", "7">>
Str_contactIntl == <<"+", "6", "3", "9", "1", "7", "1", "2", "3", "4", "5", "6", "7">>
Str_contactLetters == <<"a", "b", "c">>

ContactInputs ==
  { Str_contactValid, Str_contactDashed, Str_contactLong, Str_contactPrefix,
    Str_contactIntl, Str_contactLetters }

Str_Ana == <<"A", "n", "a">>
Str_500 == <<"5", "0", "0">>

\* The other fields and the values typed into them.
FieldInputs ==
  { <<"vendor", Str_Ana>>, <<"monthlyRent", Str_500>> }

\* value.replace(/\D/g, "")
RemoveNonDigits(value) == SelectSeq(value, IsDigit)

\* str.slice(0, n)
SliceFromStart(str, n) == SubSeq(str, 1, IF Len(str) < n THEN Len(str) ELSE n)

\* The fields after handleChange for the input called name.
handleChange(formData, name, value) ==
  IF name = "contact"
    THEN [formData EXCEPT !.contact = SliceFromStart(RemoveNonDigits(value), 11)]
    ELSE [formData EXCEPT ![name] = value]

\* A test for eleven digits, whatever the first two.
ContactTestAnyPrefix(contact) ==
  /\ Len(contact) = 11
  /\ \A i \in 1..11 : IsDigit(contact[i])

\* /^09\d{9}$/.test(contact)
ContactTest(contact) ==
  /\ Len(contact) = 11
  /\ contact[1] = "0"
  /\ contact[2] = "9"
  /\ \A i \in 3..11 : IsDigit(contact[i])

\* Number(value || 0)
NumberOrZero(value) == IF value = <<>> THEN 0 ELSE Number(value)

\* The row handleSubmit sends to the table.
InsertPayload(formData) ==
  [vendor |-> formData.vendor,
   contact |-> formData.contact,
   type |-> formData.type,
   monthly_rent |-> NumberOrZero(formData.monthlyRent),
   status |-> "current"]

\* The row the table returns for a payload: the payload with the id it gave.
InsertedRow(payload, id) ==
  [id |-> id,
   vendor |-> payload.vendor,
   contact |-> payload.contact,
   type |-> payload.type,
   monthly_rent |-> payload.monthly_rent,
   status |-> payload.status]

\* The value handleSubmit passes to setSubmittedData.
SubmittedDataOf(data) ==
  [id |-> data.id,
   vendor |-> data.vendor,
   contact |-> data.contact,
   type |-> data.type,
   monthlyRent |-> data.monthly_rent]

\* JSON.stringify(submittedData): the values of the keys in order.
JSONStringify(d) == <<d.id, d.vendor, d.contact, d.type, d.monthlyRent>>

\* QRCode.toDataURL(text): an image that carries the text.
QRCodeToDataURL(text) == [image |-> "png", text |-> text]

\* The form after a failed insert, were there no finally block.
SubmitFailedKeepsLoading(f) == f

\* The form after the catch and finally blocks of handleSubmit.
SubmitFailed(f) == [f EXCEPT !.loading = FALSE]

\* A download that does not wait for the QR code.
CanDownloadWithoutQr(f) == f.submittedData # <<>>

\* handleDownloadPDF goes on past its first line.
CanDownload(f) == ~(f.submittedData = <<>> \/ f.qrCodeDataUrl = <<>>)

InitForm ==
  /\ stalls = <<>>
  /\ type = <<>>
  /\ result = <<>>
  /\ earlier = <<>>
  /\ calls = 0
  /\ RegIdle
  /\ FormIdle

\* The form is on screen, not the success screen.
FormShown == form.submittedData = <<>>

HandleChangeContact(value) ==
  /\ FormShown
  /\ form' = [form EXCEPT !.formData = handleChange(form.formData, "contact", value)]
  /\ UNCHANGED <<allocVars, regVars, request, qrJobs, vendors, toasts, pdfs, submits>>

HandleChangeField(name, value) ==
  /\ FormShown
  /\ form' = [form EXCEPT !.formData = handleChange(form.formData, name, value)]
  /\ UNCHANGED <<allocVars, regVars, request, qrJobs, vendors, toasts, pdfs, submits>>

\* handleSubmit up to its await, or to its early return.  The submit button is
\* disabled while loading.
HandleSubmit ==
  /\ FormShown
  /\ ~form.loading
  /\ submits < MaxSubmits
  /\ submits' = submits + 1
  /\ IF ~ContactTest(form.formData.contact)
       THEN /\ toasts' = Append(toasts, "invalid contact")
            /\ form' = [form EXCEPT !.loading = FALSE]
            /\ UNCHANGED request
       ELSE /\ request' = <<InsertPayload(form.formData)>>
            /\ form' = [form EXCEPT !.loading = TRUE]
            /\ UNCHANGED toasts
  /\ UNCHANGED <<allocVars, regVars, qrJobs, vendors, pdfs>>

\* The insert returns its row: handleSubmit sets submittedData, and the effect
\* that follows the render starts the QR code of it.
InsertSucceeds ==
  /\ request # <<>>
  /\ LET data == InsertedRow(request[1], Len(vendors) + 1)
         submitted == SubmittedDataOf(data)
     IN  /\ vendors' = Append(vendors, data)
         /\ form' = [form EXCEPT !.submittedData = <<submitted>>, !.loading = FALSE]
         /\ qrJobs' = qrJobs \cup {[data |-> submitted, done |-> FALSE]}
  /\ toasts' = Append(toasts, "success")
  /\ request' = <<>>
  /\ UNCHANGED <<allocVars, regVars, pdfs, submits>>

\* The insert returns an error, or the request fails.
InsertFails ==
  /\ request # <<>>
  /\ toasts' = Append(toasts, "failed")
  /\ form' = SubmitFailed(form)
  /\ request' = <<>>
  /\ UNCHANGED <<allocVars, regVars, qrJobs, vendors, pdfs, submits>>

\* QRCode.toDataURL resolves for a job the effect started.
QrResolves(job) ==
  /\ ~job.done
  /\ form' = [form EXCEPT
                !.qrCodeDataUrl = <<QRCodeToDataURL(JSONStringify(job.data))>>]
  /\ qrJobs' = (qrJobs \ {job}) \cup {[job EXCEPT !.done = TRUE]}
  /\ UNCHANGED <<allocVars, regVars, request, vendors, toasts, pdfs, submits>>

\* QRCode.toDataURL rejects.
QrRejects(job) ==
  /\ ~job.done
  /\ toasts' = Append(toasts, "no qr code")
  /\ qrJobs' = (qrJobs \ {job}) \cup {[job EXCEPT !.done = TRUE]}
  /\ UNCHANGED <<allocVars, regVars, form, request, vendors, pdfs, submits>>

\* "Register Another Stall" on the success screen.
HandleReset ==
  /\ ~FormShown
  /\ form' = [form EXCEPT !.submittedData = <<>>,
                          !.qrCodeDataUrl = <<>>,
                          !.formData = EmptyFormData]
  /\ UNCHANGED <<allocVars, regVars, request, qrJobs, vendors, toasts, pdfs, submits>>

\* "Download Receipt (PDF)" on the success screen.
HandleDownloadPDF ==
  /\ ~FormShown
  /\ IF CanDownload(form)
       THEN pdfs' = pdfs \cup {[data |-> form.submittedData,
                                image |-> form.qrCodeDataUrl]}
       ELSE UNCHANGED pdfs
  /\ UNCHANGED <<allocVars, regVars, form, request, qrJobs, vendors, toasts, submits>>

NextForm ==
  \/ \E value \in ContactInputs : HandleChangeContact(value)
  \/ \E input \in FieldInputs : HandleChangeField(input[1], input[2])
  \/ HandleSubmit
  \/ InsertSucceeds
  \/ InsertFails
  \/ \E job \in qrJobs : QrResolves(job)
  \/ \E job \in qrJobs : QrRejects(job)
  \/ HandleReset
  \/ HandleDownloadPDF

SpecForm == InitForm /\ [][NextForm]_vars

----------------------------------------------------------------------------
(* Edits of the collection between calls: records are inserted, removed and    *)
(* renamed; lastOp names the last edit and the position of the record it       *)
(* touched.                                                                    *)

MaxEdits == 2

EditRecordPool ==
  { StallRecord(Str_stall2, Str_Stall_3, Str_Fish),
    StallRecord(Str_stall7, Str_Stall_1, Str_Meat),
    StallRecord(Str_stall5, Str_STALL_12, Str_Fish_padded),
    StallRecord(Str_mystall10x, Str_Stall_2_stall_9, Str_FISH),
    StallRecord(Str_stall5, Str_Kiosk, Str_Rice) }

EditNames == {Str_STALL_12, Str_Kiosk, Str_stall_tab_10}

InitEdits ==
  /\ stalls \in SeedCollections
  /\ type = <<>>
  /\ result = <<>>
  /\ earlier = <<>>
  /\ calls = 0
  /\ regs = <<>>
  /\ lastOp = [op |-> "none", index |-> 0, edits |-> 0]
  /\ FormIdle

Edited(op, index) ==
  /\ lastOp' = [op |-> op, index |-> index, edits |-> lastOp.edits + 1]
  /\ UNCHANGED <<type, result, earlier, calls, regs, formVars>>

\* Any record is appended.
InsertRecord(r) ==
  /\ lastOp.edits < MaxEdits
  /\ stalls' = Append(stalls, r)
  /\ Edited("insert", Len(stalls) + 1)

\* A registration of type t with filter f appends the record it was allocated.
InsertAllocated(t, f) ==
  /\ lastOp.edits < MaxEdits
  /\ stalls' = Append(stalls, NewStall(getNextStallNumbers(stalls, f), t))
  /\ Edited("allocate", Len(stalls) + 1)

\* The collection without its k-th record.
RemoveAt(array, k) == SubSeq(array, 1, k - 1) \o SubSeq(array, k + 1, Len(array))

RemoveRecord(i) ==
  /\ lastOp.edits < MaxEdits
  /\ stalls' = RemoveAt(stalls, i)
  /\ Edited("remove", i)

RenameRecord(i, name) ==
  /\ lastOp.edits < MaxEdits
  /\ stalls[i].name # name
  /\ stalls' = [stalls EXCEPT ![i].name = name]
  /\ Edited("rename", i)

NextEdits ==
  \/ \E r \in EditRecordPool : InsertRecord(r)
  \/ \E t \in RegistrationTypes : \E f \in {<<>>, <<t>>} : InsertAllocated(t, f)
  \/ \E i \in DOMAIN stalls : RemoveRecord(i)
  \/ \E i \in DOMAIN stalls : \E name \in EditNames : RenameRecord(i, name)

SpecEdits == InitEdits /\ [][NextEdits]_vars

----------------------------------------------------------------------------
(* What the claims expect of the inputs above, written out by hand. *)

\* The integer of the first `stall-<digits>` of an id: <<n>>, or <<>> when the
\* id has none.
ExpectedIdNumber(id) ==
  CASE id = Str_stall2 -> <<2>>
    [] id = Str_stall5 -> <<5>>
    [] id = Str_stall7 -> <<7>>
    [] id = Str_stall07 -> <<7>>
    [] id = Str_mystall10x -> <<10>>
    [] id = Str_Stall5 -> <<>>
    [] id = Str_stallNoDigits -> <<>>

\* The integer of the first `Stall <digits>` of a name, in any case.
ExpectedNameNumber(name) ==
  CASE name = Str_Stall_3 -> <<3>>
    [] name = Str_Stall_1 -> <<1>>
    [] name = Str_STALL_12 -> <<12>>
    [] name = Str_Corner -> <<12>>
    [] name = Str_Stall_2_stall_9 -> <<2>>
    [] name = Str_stall_tab_10 -> <<10>>
    [] name = Str_Stall4 -> <<>>
    [] name = Str_Kiosk -> <<>>

\* The category a type string or a filter names once trimmed and case-folded.
ExpectedCategory(t) ==
  CASE t \in {Str_Fish, Str_FISH, Str_fish, Str_Fish_padded, Str_FISH_padded} -> "fish"
    [] t \in {Str_Meat, Str_meat} -> "meat"
    [] t = Str_Rice -> "rice"

\* A record passes the filter t: no filter, or the same category.
ExpectedPass(stall, t) ==
  t = <<>> \/ ExpectedCategory(stall.type) = ExpectedCategory(t[1])

SetMax(S) == IF S = {} THEN 0 ELSE CHOOSE m \in S : \A x \in S : m >= x

ExpectedIdNumbers(array) ==
  { ExpectedIdNumber(array[i].id)[1] :
      i \in { k \in DOMAIN array : ExpectedIdNumber(array[k].id) # <<>> } }

ExpectedNameNumbers(array, t) ==
  { ExpectedNameNumber(array[i].name)[1] :
      i \in { k \in DOMAIN array : /\ ExpectedPass(array[k], t)
                                   /\ ExpectedNameNumber(array[k].name) # <<>> } }

Returned == result # <<>>

----------------------------------------------------------------------------
(* Claims *)

\* C1: nextIdNumber is 1 + the maximum of the integers of the ids that match
\* stall-<digits> (0 when none matches): 1 when no id matches, as with the id
\* Stall-5, and 6 for a collection whose one record has the id stall-5.
C1_NextIdNumber ==
  Returned =>
    /\ result[1].nextIdNumber = 1 + SetMax(ExpectedIdNumbers(stalls))
    /\ (\A i \in DOMAIN stalls : stalls[i].id \in {Str_Stall5, Str_stallNoDigits})
         => result[1].nextIdNumber = 1
    /\ (Len(stalls) = 1 /\ stalls[1].id = Str_stall5)
         => result[1].nextIdNumber = 6

C1_Witness ==
  /\ Returned
  /\ Len(stalls) = 3
  /\ stalls[1].id = Str_Stall5
  /\ stalls[2].id = Str_mystall10x
  /\ stalls[3].id = Str_stall7
  /\ result[1].nextIdNumber = 11

\* C2: nextNameNumber is 1 + the maximum of the integers of the `Stall <digits>`
\* names of the records that pass the type filter (all records without a
\* filter), 0 when none matches; a record failing the filter contributes
\* nothing.  For [{stall-2, "Stall 3", Fish}, {stall-7, "Stall 1", Meat}] it is 4
\* without a filter and with the filter "fish".
C2_ExampleStalls ==
  <<StallRecord(Str_stall2, Str_Stall_3, Str_Fish),
    StallRecord(Str_stall7, Str_Stall_1, Str_Meat)>>

C2_NextNameNumber ==
  Returned =>
    /\ result[1].nextNameNumber = 1 + SetMax(ExpectedNameNumbers(stalls, type))
    /\ (stalls = C2_ExampleStalls /\ type \in {<<>>, <<Str_fish>>})
         => result[1].nextNameNumber = 4

\* The filter "fish" leaves out a Meat record whose name carries the highest number.
C2_Witness ==
  /\ Returned
  /\ type = <<Str_fish>>
  /\ Len(stalls) = 2
  /\ stalls[1] = StallRecord(Str_stall2, Str_Stall_3, Str_Fish)
  /\ stalls[2] = StallRecord(Str_Stall5, Str_Corner, Str_Meat)
  /\ result[1].nextNameNumber = 4

\* C3: for the empty collection both numbers are 1, with any filter or none.
C3_EmptyCollection ==
  (Returned /\ stalls = <<>>) =>
    result[1] = [nextIdNumber |-> 1, nextNameNumber |-> 1]

C3_Witness ==
  /\ Returned
  /\ stalls = <<>>
  /\ type = <<Str_FISH_padded>>
  /\ result[1].nextIdNumber = 1

\* C4: each returned number is greater than every matching suffix of the
\* collection, so no record has the id stall-<nextIdNumber> and no record that
\* passes the filter is named Stall <nextNameNumber>.
C4_Unused ==
  Returned =>
    \A i \in DOMAIN stalls :
      /\ ExpectedIdNumber(stalls[i].id) # <<>>
           => result[1].nextIdNumber > ExpectedIdNumber(stalls[i].id)[1]
      /\ stalls[i].id # StallDash \o DecimalString(result[1].nextIdNumber)
      /\ ExpectedPass(stalls[i], type) =>
           /\ ExpectedNameNumber(stalls[i].name) # <<>>
                => result[1].nextNameNumber > ExpectedNameNumber(stalls[i].name)[1]
           /\ stalls[i].name
                # StallWord \o <<" ">> \o DecimalString(result[1].nextNameNumber)

C4_Witness ==
  /\ Returned
  /\ type = <<Str_meat>>
  /\ Len(stalls) = 3
  /\ stalls[1].id = Str_stall5
  /\ stalls[2].id = Str_stall7
  /\ stalls[3].id = Str_stall2
  /\ result[1].nextIdNumber = 8
  /\ result[1].nextNameNumber = 2

\* C5 to C7 and C9 compare the pair a call returned with the pairs of other
\* inputs.  They do so at the first return: the later ones return the same pair.

\* C5: the two numbering spaces are independent.  nextIdNumber is decided by the
\* ids alone: whatever the names, the types and the filter, it is the number
\* returned for the same ids with every name and type blanked and no filter, so
\* two calls with the same ids agree on it.  nextNameNumber is decided by names,
\* types and filter: it is the number returned with every id blanked, so two
\* calls that differ in the ids alone agree on it.
OnlyIds(array) == [i \in DOMAIN array |-> StallRecord(array[i].id, <<>>, <<>>)]

WithoutIds(array) ==
  [i \in DOMAIN array |-> StallRecord(<<>>, array[i].name, array[i].type)]

C5_Independent ==
  (Returned /\ calls = 1) =>
    /\ result[1].nextIdNumber = getNextStallNumbers(OnlyIds(stalls), <<>>).nextIdNumber
    /\ result[1].nextNameNumber
         = getNextStallNumbers(WithoutIds(stalls), type).nextNameNumber

\* The filter leaves out the record with the highest id, and the ids leave the
\* name number alone.
C5_Witness ==
  /\ Returned
  /\ type = <<Str_meat>>
  /\ Len(stalls) = 2
  /\ stalls[1] = StallRecord(Str_mystall10x, Str_Stall_2_stall_9, Str_FISH)
  /\ stalls[2] = StallRecord(Str_stall7, Str_Stall_1, Str_Meat)
  /\ result[1] = [nextIdNumber |-> 11, nextNameNumber |-> 2]

\* C6: the filter and each record's type are trimmed and case-folded: filters of
\* the same category (" FISH ", "fish", "Fish") give the same result, and a
\* record of type " Fish " passes the filter "fish".
C6_FilterNormalized ==
  (Returned /\ calls = 1 /\ type # <<>>) =>
    /\ \A t \in TypePool \ {<<>>} :
         ExpectedCategory(t[1]) = ExpectedCategory(type[1])
           => getNextStallNumbers(stalls, t) = result[1]
    /\ (/\ type = <<Str_fish>>
        /\ stalls = <<StallRecord(Str_stall5, Str_STALL_12, Str_Fish_padded)>>)
         => result[1].nextNameNumber = 13

C6_Witness ==
  /\ Returned
  /\ type = <<Str_FISH_padded>>
  /\ Len(stalls) = 2
  /\ stalls[1] = StallRecord(Str_stall5, Str_STALL_12, Str_Fish_padded)
  /\ stalls[2] = StallRecord(Str_stall7, Str_Stall_1, Str_Meat)
  /\ result[1].nextNameNumber = 13

\* C7: the result does not depend on the order of the records: every
\* permutation of the collection gives both numbers the same.
Permutations ==
  [n \in 0..MaxStalls |->
     { p \in [1..n -> 1..n] : \A i, j \in 1..n : p[i] = p[j] => i = j }]

C7_OrderIndependent ==
  (Returned /\ calls = 1) =>
    \A p \in Permutations[Len(stalls)] :
      getNextStallNumbers([i \in 1..Len(stalls) |-> stalls[p[i]]], type) = result[1]

\* The highest id comes first and the highest name last.
C7_Witness ==
  /\ Returned
  /\ type = <<>>
  /\ Len(stalls) = 3
  /\ stalls[1].id = Str_mystall10x
  /\ stalls[2].id = Str_stall2
  /\ stalls[3].id = Str_stall5
  /\ stalls[3].name = Str_STALL_12
  /\ result[1] = [nextIdNumber |-> 11, nextNameNumber |-> 13]

Malformed(stall) ==
  /\ ExpectedIdNumber(stall.id) = <<>>
  /\ ExpectedNameNumber(stall.name) = <<>>


C9_MalformedInert ==
  Returned =>
    /\ result[1].nextIdNumber \in Nat \ {0}
    /\ result[1].nextNameNumber \in Nat \ {0}
    /\ \A k \in DOMAIN stalls :
         (calls = 1 /\ Malformed(stalls[k]))
           => getNextStallNumbers(RemoveAt(stalls, k), type) = result[1]

\* A malformed record stands between two records that count.
C9_Witness ==
  /\ Returned
  /\ type = <<Str_Fish>>
  /\ Len(stalls) = 3
  /\ stalls[1] = StallRecord(Str_stall2, Str_Stall_3, Str_Fish)
  /\ stalls[2] = StallRecord(Str_Stall5, Str_Kiosk, Str_Fish)
  /\ stalls[3] = StallRecord(Str_stall07, Str_stall_tab_10, Str_fish)
  /\ result[1] = [nextIdNumber |-> 8, nextNameNumber |-> 11]

\* C10: the name pattern matches in any case, anywhere in the name, and the
\* first match is the one used: "Corner Stall 12 - North" and "STALL 12"
\* contribute 12, and "Stall 2 stall 9" contributes 2, not 9.
C10_FirstMatchAnywhere ==
  Returned =>
    /\ \A i \in DOMAIN stalls :
         (type = <<>> /\ stalls[i].name \in {Str_Corner, Str_STALL_12})
           => result[1].nextNameNumber >= 13
    /\ (type = <<>> /\ Len(stalls) = 1) =>
         /\ stalls[1].name \in {Str_Corner, Str_STALL_12}
              => result[1].nextNameNumber = 13
         /\ stalls[1].name = Str_Stall_2_stall_9
              => result[1].nextNameNumber = 3
    /\ (type = <<>> /\ \A i \in DOMAIN stalls :
                         stalls[i].name \in {Str_Stall_2_stall_9, Str_Kiosk, Str_Stall4})
         => result[1].nextNameNumber <= 3

C10_Witness ==
  /\ Returned
  /\ type = <<>>
  /\ Len(stalls) = 2
  /\ stalls[1].name = Str_Stall_2_stall_9
  /\ stalls[2].name = Str_Corner
  /\ result[1].nextNameNumber = 13

\* C18: a filter that is the empty string or white space only is a filter:
\* nextNameNumber then comes from the records whose type is blank once trimmed,
\* and is 1 when every record has a type that is not blank; the omitted filter
\* alone considers all records.
ExpectedBlank(t) == t \in {Str_empty, Str_space}

ExpectedBlankNameNumbers(array) ==
  { ExpectedNameNumber(array[i].name)[1] :
      i \in { k \in DOMAIN array : /\ ExpectedBlank(array[k].type)
                                   /\ ExpectedNameNumber(array[k].name) # <<>> } }

C18_BlankFilterIsAFilter ==
  Returned =>
    /\ (type # <<>> /\ ExpectedBlank(type[1])) =>
         /\ result[1].nextNameNumber = 1 + SetMax(ExpectedBlankNameNumbers(stalls))
         /\ (\A i \in DOMAIN stalls : ~ExpectedBlank(stalls[i].type))
              => result[1].nextNameNumber = 1
    /\ type = <<>> =>
         result[1].nextNameNumber = 1 + SetMax(ExpectedNameNumbers(stalls, <<>>))

\* Under the filter "" two records with numbered names and types Fish and Meat
\* count for nothing.
C18_Witness ==
  /\ Returned
  /\ type = <<Str_empty>>
  /\ Len(stalls) = 2
  /\ stalls[1] = StallRecord(Str_stall2, Str_Stall_3, Str_Fish)
  /\ stalls[2] = StallRecord(Str_Stall5, Str_Corner, Str_Meat)
  /\ result[1].nextNameNumber = 1

\* C11: serialized allocation keeps the ids unique: from a collection with
\* pairwise distinct ids, when every registration computes on the latest
\* collection and inserts stall-<nextIdNumber> before the next one computes,
\* the ids of the collection are pairwise distinct in every state.
C11_SerialUnique == DistinctIds(stalls)

\* Two registrations after stall-7 and stall-5: stall-8, then stall-9.
C11_Witness ==
  /\ \A i \in 1..NumRegistrations : regs[i].pc = "inserted"
  /\ Len(stalls) = 2 + NumRegistrations
  /\ stalls[1].id = Str_stall7
  /\ stalls[2].id = Str_stall5
  /\ stalls[3].id = StallDash \o <<"8">>
  /\ stalls[4].id = StallDash \o <<"9">>

\* C12, as stated: two registrations that computed on the same snapshot hold the
\* same nextIdNumber and the same nextNameNumber.
SameSnapshot(i, j) ==
  /\ i # j
  /\ regs[i].pc # "idle"
  /\ regs[j].pc # "idle"
  /\ regs[i].snapshot = regs[j].snapshot

C12_SameNumbers ==
  \A i, j \in 1..NumRegistrations :
    SameSnapshot(i, j) => regs[i].numbers = regs[j].numbers

\* C12, amended: two registrations that computed on the same snapshot hold the
\* same nextIdNumber, and the same nextNameNumber when they passed the same
\* filter; once both have inserted, two records of the collection share the id
\* stall-<nextIdNumber>.
C12_RaceDuplicates ==
  \A i, j \in 1..NumRegistrations :
    SameSnapshot(i, j) =>
      /\ regs[i].numbers[1].nextIdNumber = regs[j].numbers[1].nextIdNumber
      /\ regs[i].filter = regs[j].filter
           => regs[i].numbers[1].nextNameNumber = regs[j].numbers[1].nextNameNumber
      /\ (regs[i].pc = "inserted" /\ regs[j].pc = "inserted") =>
           \E k, l \in DOMAIN stalls :
             /\ k # l
             /\ stalls[k].id = stalls[l].id
             /\ stalls[k].id
                  = StallDash \o DecimalString(regs[i].numbers[1].nextIdNumber)

\* Both computed on [stall-2, stall-7] and both inserted stall-8.
C12_Witness ==
  /\ SameSnapshot(1, 2)
  /\ regs[1].pc = "inserted"
  /\ regs[2].pc = "inserted"
  /\ Len(stalls) = 4
  /\ stalls[2].id = Str_stall7
  /\ stalls[3].id = StallDash \o <<"8">>
  /\ stalls[4].id = StallDash \o <<"8">>

\* The filters the numbers are compared under.
EditFilters == { <<>>, <<Str_fish>>, <<Str_FISH_padded>>, <<Str_meat>> }

\* C13: under insertions nextIdNumber and, for every fixed filter,
\* nextNameNumber never decrease; and nextIdNumber strictly increases each time
\* the inserted record takes the id stall-<nextIdNumber>.
C13_Monotone ==
  [][ lastOp'.op \in {"insert", "allocate"} =>
        /\ getNextStallNumbers(stalls', <<>>).nextIdNumber
             >= getNextStallNumbers(stalls, <<>>).nextIdNumber
        /\ \A t \in EditFilters :
             getNextStallNumbers(stalls', t).nextNameNumber
               >= getNextStallNumbers(stalls, t).nextNameNumber
        /\ stalls'[Len(stalls')].id
             = StallDash \o DecimalString(getNextStallNumbers(stalls, <<>>).nextIdNumber)
           => getNextStallNumbers(stalls', <<>>).nextIdNumber
                > getNextStallNumbers(stalls, <<>>).nextIdNumber ]_vars

\* stall-8 was allocated after stall-7 and stall-5; then stall-2 was inserted.
C13_Witness ==
  /\ lastOp.op = "insert"
  /\ Len(stalls) = 4
  /\ stalls[1].id = Str_stall7
  /\ stalls[3].id = StallDash \o <<"8">>
  /\ stalls[4].id = Str_stall2

\* The record an edit touched: the removed one, else the one at the index after
\* the edit.
C14_Touched(before, after, op) ==
  IF op.op = "remove" THEN before[op.index] ELSE after[op.index]

\* C14: for every filter T, inserting, removing or renaming a record whose
\* trimmed, lower-cased type differs from T's leaves the nextNameNumber of
\* filter T unchanged.
C14_Frame ==
  [][ lastOp'.op \in {"insert", "allocate", "remove", "rename"} =>
        \A t \in EditFilters \ {<<>>} :
          ExpectedCategory(C14_Touched(stalls, stalls', lastOp').type)
              # ExpectedCategory(t[1])
            => getNextStallNumbers(stalls', t).nextNameNumber
                 = getNextStallNumbers(stalls, t).nextNameNumber ]_vars

\* The Meat record 'Stall 1' was renamed 'STALL 12' next to the Fish record
\* 'Stall 3'.
C14_Witness ==
  /\ lastOp.op = "rename"
  /\ Len(stalls) = 2
  /\ stalls[1] = StallRecord(Str_stall2, Str_Stall_3, Str_Fish)
  /\ stalls[2] = StallRecord(Str_stall7, Str_STALL_12, Str_Meat)

\* C15: when the insert fails, handleSubmit shows an error notification,
\* submittedData keeps the value it had, null, and loading is false afterwards.
C15_InsertFailed ==
  [][ (request # <<>> /\ request' = <<>> /\ vendors' = vendors) =>
        /\ toasts' = Append(toasts, "failed")
        /\ form'.submittedData = form.submittedData
        /\ form'.submittedData = <<>>
        /\ form'.loading = FALSE ]_vars

\* A first submit whose insert failed.
C15_Witness ==
  /\ submits = 1
  /\ request = <<>>
  /\ vendors = <<>>
  /\ toasts = <<"failed">>
  /\ ~form.loading
  /\ form.formData.contact = Str_contactValid

\* The row of the table that the data d came from.
C16_FromInsert(d) ==
  \E k \in DOMAIN vendors :
    /\ vendors[k].id = d.id
    /\ vendors[k].vendor = d.vendor
    /\ vendors[k].contact = d.contact

C16_State ==
  /\ \A job \in qrJobs : C16_FromInsert(job.data)
  /\ \A pdf \in pdfs : /\ pdf.data # <<>>
                       /\ pdf.image # <<>>
                       /\ C16_FromInsert(pdf.data[1])

C16_Step ==
  /\ \A job \in qrJobs' :
       (\A old \in qrJobs : old.data # job.data) => form'.submittedData = <<job.data>>
  /\ pdfs' # pdfs => (form.submittedData # <<>> /\ form.qrCodeDataUrl # <<>>)

\* C16: a QR code generation starts only once submittedData holds the row of a
\* successful insert; handleDownloadPDF saves a document only when submittedData
\* and qrCodeDataUrl are both non-null; so every QR code generation and every
\* saved document comes after a successful insert.
C16_AfterInsert == []C16_State /\ [][C16_Step]_vars

\* A receipt was saved for the first registration.
C16_Witness ==
  /\ Len(vendors) = 1
  /\ \E pdf \in pdfs : pdf.data = form.submittedData /\ pdf.image = form.qrCodeDataUrl
  /\ \E job \in qrJobs : job.done

\* C17: in every state, whatever the order of submits, insert completions, QR
\* code completions and resets, a non-null qrCodeDataUrl comes with a non-null
\* submittedData and is the QR code of that submittedData.
C17_QrOfSubmitted ==
  form.qrCodeDataUrl # <<>> =>
    /\ form.submittedData # <<>>
    /\ form.qrCodeDataUrl[1].text[1] = form.submittedData[1].id
    /\ form.qrCodeDataUrl[1].text[2] = form.submittedData[1].vendor
    /\ form.qrCodeDataUrl[1].text[3] = form.submittedData[1].contact

\* The contacts of the model that match ^09\d{9}$.
C19_ValidContacts == {Str_contactValid}

C19_State ==
  /\ request # <<>> => request[1].contact \in C19_ValidContacts
  /\ \A k \in DOMAIN vendors : vendors[k].contact \in C19_ValidContacts
  /\ Len(form.formData.contact) <= 11
  /\ \A i \in DOMAIN form.formData.contact :
       form.formData.contact[i] \in {"0", "1", "2", "3", "4", "5", "6", "7", "8", "9"}

C19_Step ==
  (submits' = submits + 1 /\ form.formData.contact \notin C19_ValidContacts) =>
     /\ request' = <<>>
     /\ request = <<>>
     /\ vendors' = vendors
     /\ toasts' = Append(toasts, "invalid contact")
     /\ form'.submittedData = form.submittedData
     /\ form'.loading = FALSE

\* C19: the insert is sent only when the contact matches ^09\d{9}$; otherwise
\* handleSubmit sends nothing, shows an error notification, leaves submittedData
\* as it was and loading false; and after any sequence of handleChange calls the
\* contact holds digits only, at most 11.
C19_ContactGate == []C19_State /\ [][C19_Step]_vars

\* A submit of 08171234567 was turned down.
C19_Witness ==
  /\ submits = 1
  /\ toasts = <<"invalid contact">>
  /\ form.formData.contact = Str_contactPrefix
  /\ request = <<>>
  /\ ~form.loading
  /\ vendors = <<>>

====
